---- MODULE Spec2Model ----
(***************************************************************************)
(* A model of train.py of the GRN repository: unroll (feature propagation), *)
(* train (the epoch loop), earlystopping, test, and the module-level run.   *)
(*                                                                          *)
(* Tensors are abstracted as follows.  A loss or an accuracy is an opaque   *)
(* number the tensor library returns; it is drawn from a small set, and is  *)
(* tagged with the forward pass it was computed from.  The parameters of    *)
(* the model are abstracted to the number of optimizer steps applied to     *)
(* them.  Matrices of unroll have integer entries.                          *)
(***************************************************************************)
EXTENDS Integers, Sequences, FiniteSets, TLC

VARIABLES run, main, pair, un

vars == <<run, main, pair, un>>

\* ------------------------------------------------------------------ bounds

MaxEpochs == 3
MaxPatience == 2
MaxIterArg == 3
PairEpochs == 2
MaxNodes == 2
MaxUnroll == 3

\* Values a validation loss takes in the statement-level model of train.
LossVals == {1, 2, 1001}
TrainLossVals == {1, 2}
AccVals == {0, 1}
\* Values a validation loss takes in the module-level run (epoch-level steps).
ScriptLossVals == {1, 2, 3, 4}
\* Values a validation loss takes in the paired runs.
PairLossVals == {1, 2}
\* Matrix entries and feature counts for unroll.
Entries == {0, 1}
FeatCounts == {1, 2}

\* ---------------------------------------------------------------- helpers

Min(a, b) == IF a < b THEN a ELSE b

RECURSIVE SeqMin(_)
SeqMin(s) == IF Len(s) = 1 THEN s[1] ELSE Min(s[1], SeqMin(Tail(s)))

Prefix(s, k) == SubSeq(s, 1, k)

\* ----------------------------------------------------------- earlystopping

InitBest == 1000

\* earlystopping.__init__
es_init(patience) == [best |-> InitBest, patience |-> patience, t |-> 0]

\* A variant stopping one non-improving call earlier (>= instead of >).
es_test_ge(es, l_list) ==
    LET current == l_list[Len(l_list)] IN
    IF current < es.best
    THEN [es |-> [es EXCEPT !.best = current], ret |-> FALSE]
    ELSE LET t2 == es.t + 1 IN
         [es |-> [es EXCEPT !.t = t2], ret |-> t2 >= es.patience]

\* earlystopping.test: the updated object and the returned flag.
es_test(es, l_list) ==
    LET current == l_list[Len(l_list)] IN
    IF current < es.best
    THEN [es |-> [es EXCEPT !.best = current], ret |-> FALSE]
    ELSE LET t2 == es.t + 1 IN
         [es |-> [es EXCEPT !.t = t2], ret |-> t2 > es.patience]

\* ------------------------------------------------------------------ train

NoOuts == [params |-> -1, training |-> FALSE, valid |-> FALSE]
NoLoss == [value |-> 0, idx |-> "none", from |-> NoOuts]

\* The state of one call of train, after lines 80-85: the lists are empty,
\* the early-stopping object is new, the range iterator is at 0.
train_init(n_epochs, p, training) ==
    [pc |-> "for", n_epochs |-> n_epochs, p |-> p, it |-> 0, epoch |-> -1,
     loss_list_train |-> <<>>, loss_list_val |-> <<>>, acc_list_val |-> <<>>,
     es |-> es_init(p), stop |-> FALSE,
     training |-> training, params |-> 0, grad |-> "none",
     outs |-> NoOuts, loss_train |-> NoLoss, loss_val |-> NoLoss,
     acc_val |-> NoLoss, loss_test |-> NoLoss, acc_test |-> NoLoss,
     log |-> <<>>, val_from |-> <<>>, executed |-> 0]

\* The loop body with the optimizer step moved after the validation pass.
BodyStepLast ==
    <<"zero_grad", "model_train", "forward_train", "loss_train", "backward",
      "append_train", "model_eval", "forward_val", "loss_val", "acc_val",
      "append_val", "append_acc", "step", "es_test", "if_stop">>

\* The loop body without the switch to evaluation mode.
BodyNoEval ==
    <<"zero_grad", "model_train", "forward_train", "loss_train", "backward",
      "append_train", "step", "forward_val", "loss_val", "acc_val",
      "append_val", "append_acc", "es_test", "if_stop">>

\* The statements of the loop body, lines 87-103, in program order.
Body ==
    <<"zero_grad", "model_train", "forward_train", "loss_train", "backward",
      "append_train", "step", "model_eval", "forward_val", "loss_val",
      "acc_val", "append_val", "append_acc", "es_test", "if_stop">>

IndexOf(s) == CHOOSE k \in 1..Len(Body) : Body[k] = s

\* The statement after s inside the body.
Succ(s) == Body[IndexOf(s) + 1]

\* model(X): the forward pass sees the current parameters and mode.
forward(r) == [params |-> r.params, training |-> r.training, valid |-> TRUE]

\* for epoch in range(n_epochs): the next index, or the end of the loop.
for_next(r) ==
    IF r.it < r.n_epochs
    THEN [r EXCEPT !.epoch = r.it, !.it = r.it + 1, !.pc = Body[1],
                   !.log = <<>>, !.executed = r.executed + 1]
    ELSE [r EXCEPT !.pc = "return"]

\* A loop that never breaks.
if_stop_ignored(r) == [r EXCEPT !.pc = "for"]

\* if stop: break
if_stop(r) == [r EXCEPT !.pc = IF r.stop THEN "return" ELSE "for"]

\* The early-stopping test applied to the training losses.
stmt_es_test_train(r) ==
    LET res == es_test(r.es, r.loss_list_train) IN
    [r EXCEPT !.es = res.es, !.stop = res.ret]

\* stop = es.test(loss_list_val)
stmt_es_test(r) ==
    LET res == es_test(r.es, r.loss_list_val) IN
    [r EXCEPT !.es = res.es, !.stop = res.ret]

\* The validation loss appended without the accuracy.
stmt_append_acc_skip(r) == r

\* acc_list_val.append(acc_val.item())
stmt_append_acc(r) ==
    [r EXCEPT !.acc_list_val = Append(r.acc_list_val, r.acc_val.value)]

\* One statement of the loop body.  in.tl, in.vl, in.av are the values the
\* tensor library returns for the training loss, the validation loss and
\* the validation accuracy.
Effect(s, r, in) ==
    CASE s = "zero_grad"     -> [r EXCEPT !.grad = "zero"]
      [] s = "model_train"   -> [r EXCEPT !.training = TRUE]
      [] s = "forward_train" -> [r EXCEPT !.outs = forward(r)]
      [] s = "loss_train"    ->
            [r EXCEPT !.loss_train =
                [value |-> in.tl, idx |-> "train", from |-> r.outs]]
      [] s = "backward"      -> [r EXCEPT !.grad = "set"]
      [] s = "append_train"  ->
            [r EXCEPT !.loss_list_train =
                Append(r.loss_list_train, r.loss_train.value)]
      [] s = "step"          -> [r EXCEPT !.params = r.params + 1]
      [] s = "model_eval"    -> [r EXCEPT !.training = FALSE]
      [] s = "forward_val"   -> [r EXCEPT !.outs = forward(r)]
      [] s = "loss_val"      ->
            [r EXCEPT !.loss_val =
                [value |-> in.vl, idx |-> "val", from |-> r.outs]]
      [] s = "acc_val"       ->
            [r EXCEPT !.acc_val =
                [value |-> in.av, idx |-> "val", from |-> r.outs]]
      [] s = "append_val"    ->
            [r EXCEPT !.loss_list_val =
                          Append(r.loss_list_val, r.loss_val.value),
                      !.val_from = Append(r.val_from, r.loss_val.from)]
      [] s = "append_acc"    -> stmt_append_acc(r)
      [] s = "es_test"       -> stmt_es_test(r)

\* Executing the statement at r.pc: its effect, the trace of the epoch, and
\* the move to the next statement.
Exec(r, in) ==
    CASE r.pc = "for"     -> for_next(r)
      [] r.pc = "if_stop" -> if_stop(r)
      [] r.pc = "return"  -> [r EXCEPT !.pc = "test_eval"]
      [] OTHER ->
            LET r2 == Effect(r.pc, r, in) IN
            [r2 EXCEPT !.log = Append(r.log, r.pc), !.pc = Succ(r.pc)]

\* A whole pass from the loop head back to it (or to the return).
RECURSIVE RunEpoch(_, _)
RunEpoch(r, in) ==
    LET r2 == Exec(r, in) IN
    IF r2.pc \in {"for", "return"} THEN r2 ELSE RunEpoch(r2, in)

\* test(model, X, labels, idx_test_), lines 46-52, one statement at a time.
TestEffect(s, r, in) ==
    CASE s = "test_eval"    -> [r EXCEPT !.training = FALSE, !.pc = "test_forward"]
      [] s = "test_forward" -> [r EXCEPT !.outs = forward(r), !.pc = "test_loss"]
      [] s = "test_loss"    ->
            [r EXCEPT !.loss_test =
                          [value |-> in.tl, idx |-> "test", from |-> r.outs],
                      !.pc = "test_acc"]
      [] s = "test_acc"     ->
            [r EXCEPT !.acc_test =
                          [value |-> in.av, idx |-> "test", from |-> r.outs],
                      !.pc = "done"]

\* test as one call.
RECURSIVE RunTest(_, _)
RunTest(r, in) ==
    LET r2 == TestEffect(r.pc, r, in) IN
    IF r2.pc = "done" THEN r2 ELSE RunTest(r2, in)

NoIn == [tl |-> 0, vl |-> 0, av |-> 0]

\* Inputs with the training loss and the accuracies held at one value.
ScriptIn(vl) == [tl |-> 1, vl |-> vl, av |-> 1]

Idle == [pc |-> "idle"]

\* The loop head of r leaves the loop.
LoopExits(r) == Exec(r, NoIn).pc = "return"

TestPcs == {"test_eval", "test_forward", "test_loss", "test_acc", "done"}

\* train has returned to its caller.
Returned(r) == r.pc \in TestPcs

\* ----------------------------------------------------------------- unroll

Dot(a, b, m) ==
    LET RECURSIVE Acc(_)
        Acc(k) == IF k = 0 THEN 0 ELSE a[k] * b[k] + Acc(k - 1)
    IN Acc(m)

\* torch.mm(A, B): A is n x m, B is m x k.
mm(A, B) ==
    [i \in 1..Len(A) |->
        [j \in 1..Len(B[1]) |->
            Dot(A[i], [l \in 1..Len(B) |-> B[l][j]], Len(B))]]

zeros(n_iters, n_nodes, n_feats) ==
    [k \in 1..n_iters |-> [i \in 1..n_nodes |-> [j \in 1..n_feats |-> 0]]]

\* A loop that multiplies the first snapshot every time.
RECURSIVE unroll_loop_first(_, _, _, _)
unroll_loop_first(outs, P, i, n_iters) ==
    IF i >= n_iters THEN outs
    ELSE unroll_loop_first([outs EXCEPT ![i + 1] = mm(P, outs[1])],
                           P, i + 1, n_iters)

\* for i in range(1, n_iters): outs[i] = torch.mm(P, outs[i-1])
\* (snapshot i of the code is outs[i + 1] here).
RECURSIVE unroll_loop(_, _, _, _)
unroll_loop(outs, P, i, n_iters) ==
    IF i >= n_iters THEN outs
    ELSE unroll_loop([outs EXCEPT ![i + 1] = mm(P, outs[i])],
                     P, i + 1, n_iters)

\* unroll(X, P, n_iters).  With n_iters = 0 the assignment outs[0] = X
\* indexes an empty tensor and raises.
unroll(X, P, n_iters) ==
    IF n_iters = 0 THEN [err |-> TRUE, outs |-> <<>>]
    ELSE LET n_nodes == Len(X)
             n_feats == Len(X[1])
             outs0 == zeros(n_iters, n_nodes, n_feats)
             outs1 == [outs0 EXCEPT ![1] = X]
         IN [err |-> FALSE, outs |-> unroll_loop(outs1, P, 1, n_iters)]

\* ------------------------------------------------------ module-level run

Default_n_iter == 9
Default_ps == 5
Absent == -1

\* parser.parse_args(): an option left out takes its default.
parse_args(argv) ==
    [n_iter |-> IF argv.n_iter = Absent THEN Default_n_iter ELSE argv.n_iter,
     ps     |-> IF argv.ps = Absent THEN Default_ps ELSE argv.ps]

\* The number of epochs taken from the patience option.
hyper_n_epochs_ps(arg) == arg.ps

\* n_epochs = arg.n_iter
hyper_n_epochs(arg) == arg.n_iter

\* n_iters = arg.n_iter
hyper_n_iters(arg) == arg.n_iter

\* The data load_data returns is outside train.py; a two-node graph.
features0 == <<<<1>>, <<0>>>>
P0 == <<<<0, 1>>, <<1, 0>>>>

\* ------------------------------------------------- statement-level train

Others == <<main, pair, un>>

At(s) == run.pc = s

For ==
    At("for") /\ run' = Exec(run, NoIn) /\ UNCHANGED Others
ZeroGrad ==
    At("zero_grad") /\ run' = Exec(run, NoIn) /\ UNCHANGED Others
ModelTrain ==
    At("model_train") /\ run' = Exec(run, NoIn) /\ UNCHANGED Others
ForwardTrain ==
    At("forward_train") /\ run' = Exec(run, NoIn) /\ UNCHANGED Others
LossTrain ==
    /\ At("loss_train")
    /\ \E v \in TrainLossVals : run' = Exec(run, [NoIn EXCEPT !.tl = v])
    /\ UNCHANGED Others
Backward ==
    At("backward") /\ run' = Exec(run, NoIn) /\ UNCHANGED Others
AppendTrain ==
    At("append_train") /\ run' = Exec(run, NoIn) /\ UNCHANGED Others
Step ==
    At("step") /\ run' = Exec(run, NoIn) /\ UNCHANGED Others
ModelEval ==
    At("model_eval") /\ run' = Exec(run, NoIn) /\ UNCHANGED Others
ForwardVal ==
    At("forward_val") /\ run' = Exec(run, NoIn) /\ UNCHANGED Others
LossVal ==
    /\ At("loss_val")
    /\ \E v \in LossVals : run' = Exec(run, [NoIn EXCEPT !.vl = v])
    /\ UNCHANGED Others
AccVal ==
    /\ At("acc_val")
    /\ \E v \in AccVals : run' = Exec(run, [NoIn EXCEPT !.av = v])
    /\ UNCHANGED Others
AppendVal ==
    At("append_val") /\ run' = Exec(run, NoIn) /\ UNCHANGED Others
AppendAcc ==
    At("append_acc") /\ run' = Exec(run, NoIn) /\ UNCHANGED Others
EsTest ==
    At("es_test") /\ run' = Exec(run, NoIn) /\ UNCHANGED Others
IfStop ==
    At("if_stop") /\ run' = Exec(run, NoIn) /\ UNCHANGED Others
Return ==
    At("return") /\ run' = Exec(run, NoIn) /\ UNCHANGED Others
TestEval ==
    At("test_eval") /\ run' = TestEffect("test_eval", run, NoIn)
    /\ UNCHANGED Others
TestForward ==
    At("test_forward") /\ run' = TestEffect("test_forward", run, NoIn)
    /\ UNCHANGED Others
TestLoss ==
    /\ At("test_loss")
    /\ run' = TestEffect("test_loss", run, ScriptIn(1))
    /\ UNCHANGED Others
TestAcc ==
    /\ At("test_acc")
    /\ run' = TestEffect("test_acc", run, ScriptIn(1))
    /\ UNCHANGED Others

Init ==
    /\ run \in {train_init(n, p, TRUE) :
                    n \in 0..MaxEpochs, p \in 0..MaxPatience}
    /\ main = Idle
    /\ pair = <<>>
    /\ un = Idle

Next ==
    \/ For \/ ZeroGrad \/ ModelTrain \/ ForwardTrain \/ LossTrain
    \/ Backward \/ AppendTrain \/ Step \/ ModelEval \/ ForwardVal
    \/ LossVal \/ AccVal \/ AppendVal \/ AppendAcc \/ EsTest \/ IfStop
    \/ Return \/ TestEval \/ TestForward \/ TestLoss \/ TestAcc

Spec == Init /\ [][Next]_vars

\* ------------------------------------------------------- module-level run

ParseArgs ==
    /\ main.pc = "parse"
    /\ main' = [main EXCEPT !.arg = parse_args(main.argv), !.pc = "hyper"]
    /\ UNCHANGED <<run, pair, un>>

Hyper ==
    /\ main.pc = "hyper"
    /\ main' = [main EXCEPT !.n_iters = hyper_n_iters(main.arg),
                            !.n_epochs = hyper_n_epochs(main.arg),
                            !.ps = main.arg.ps,
                            !.pc = "unroll"]
    /\ UNCHANGED <<run, pair, un>>

UnrollX ==
    /\ main.pc = "unroll"
    /\ LET res == unroll(features0, P0, main.n_iters) IN
       main' = IF res.err THEN [main EXCEPT !.pc = "error"]
               ELSE [main EXCEPT !.X = res.outs, !.pc = "train"]
    /\ UNCHANGED <<run, pair, un>>

TrainCall ==
    /\ main.pc = "train"
    /\ run' = train_init(main.n_epochs, main.ps, TRUE)
    /\ main' = [main EXCEPT !.pc = "epochs"]
    /\ UNCHANGED <<pair, un>>

TrainExit ==
    /\ main.pc = "epochs"
    /\ run.pc = "for"
    /\ LoopExits(run)
    /\ run' = Exec(run, NoIn)
    /\ UNCHANGED Others

TrainEpoch ==
    /\ main.pc = "epochs"
    /\ run.pc = "for"
    /\ ~LoopExits(run)
    /\ \E vl \in ScriptLossVals : run' = RunEpoch(run, ScriptIn(vl))
    /\ UNCHANGED Others

TrainReturn ==
    /\ main.pc = "epochs"
    /\ run.pc = "return"
    /\ run' = Exec(run, NoIn)
    /\ main' = [main EXCEPT !.pc = "test"]
    /\ UNCHANGED <<pair, un>>

TestCall ==
    /\ main.pc = "test"
    /\ run' = RunTest(run, ScriptIn(1))
    /\ main' = [main EXCEPT !.pc = "done"]
    /\ UNCHANGED <<pair, un>>

ArgVals(max) == {Absent} \cup 0..max

InitScript ==
    /\ main \in {[pc |-> "parse", argv |-> [n_iter |-> a, ps |-> b],
                   arg |-> [n_iter |-> 0, ps |-> 0],
                   n_iters |-> 0, n_epochs |-> 0, ps |-> 0, X |-> <<>>] :
                    a \in ArgVals(MaxIterArg), b \in ArgVals(MaxPatience)}
    /\ run = Idle
    /\ pair = <<>>
    /\ un = Idle

NextScript ==
    \/ ParseArgs \/ Hyper \/ UnrollX \/ TrainCall \/ TrainEpoch \/ TrainExit
    \/ TrainReturn \/ TestCall

SpecScript == InitScript /\ [][NextScript]_vars

\* ------------------------------------------------------------ paired runs

PairExit ==
    /\ \E i \in 1..2 : pair[i].pc = "for"
    /\ \A i \in 1..2 : pair[i].pc = "for" => LoopExits(pair[i])
    /\ pair' = [i \in 1..2 |->
                  IF pair[i].pc = "for" THEN Exec(pair[i], NoIn) ELSE pair[i]]
    /\ UNCHANGED <<run, main, un>>

PairEpoch ==
    /\ \E i \in 1..2 : pair[i].pc = "for" /\ ~LoopExits(pair[i])
    /\ \E vl \in PairLossVals, tl1 \in TrainLossVals, tl2 \in TrainLossVals,
          a1 \in AccVals, a2 \in AccVals :
          LET in == <<[tl |-> tl1, vl |-> vl, av |-> a1],
                      [tl |-> tl2, vl |-> vl, av |-> a2]>>
          IN pair' = [i \in 1..2 |->
                        IF pair[i].pc = "for" THEN RunEpoch(pair[i], in[i])
                        ELSE pair[i]]
    /\ UNCHANGED <<run, main, un>>

InitPair ==
    /\ \E n \in 0..PairEpochs, p \in 0..MaxPatience :
          pair = <<train_init(n, p, TRUE), train_init(n, p, TRUE)>>
    /\ run = Idle
    /\ main = Idle
    /\ un = Idle

NextPair == PairEpoch \/ PairExit

SpecPair == InitPair /\ [][NextPair]_vars

\* ----------------------------------------------------------- unroll alone

Mat(n, m) == [1..n -> [1..m -> Entries]]

CallUnroll ==
    /\ un.pc = "call"
    /\ un' = [un EXCEPT !.ret = unroll(un.X, un.P, un.n_iters),
                        !.pc = "returned"]
    /\ UNCHANGED <<run, main, pair>>

InitUnroll ==
    /\ \E n \in 1..MaxNodes, f \in FeatCounts, k \in 0..MaxUnroll :
         \E X \in Mat(n, f), P \in Mat(n, n) :
            un = [pc |-> "call", X |-> X, P |-> P, n_iters |-> k,
                  X0 |-> X, P0 |-> P, ret |-> [err |-> FALSE, outs |-> <<>>]]
    /\ run = Idle
    /\ main = Idle
    /\ pair = <<>>

NextUnroll == CallUnroll

SpecUnroll == InitUnroll /\ [][NextUnroll]_vars

\* ================================================================ claims

\* The best value the early-stopping object holds before call i on l.
BestBefore(l, i) == IF i = 1 THEN InitBest ELSE Min(InitBest, SeqMin(Prefix(l, i - 1)))

\* Call i on l does not improve on the best held before it.
NonImp(l, i) == l[i] >= BestBefore(l, i)

\* The number of non-improving calls among the first k.
NonImpCount(l, k) == Cardinality({i \in 1..k : NonImp(l, i)})

\* Epoch i fails to improve on the lowest loss of the epochs before it; the
\* first epoch has nothing before it and improves.
Fails(l, i) == i > 1 /\ l[i] >= SeqMin(Prefix(l, i - 1))

\* The length of the run of consecutive failing epochs that ends at the last.
Trailing(l) ==
    LET n == Len(l)
        starts == {j \in 1..n : \A i \in j..n : Fails(l, i)}
    IN Cardinality(starts)

\* C1 (as claimed): train halts at an epoch if and only if the validation
\* loss has failed to improve in more than p consecutive epochs ending at
\* that epoch.  Stated for the module-level run, whose losses all lie below
\* the initial best, at the end of each executed epoch.
C1_StopsIffConsecutive ==
    (main.pc = "epochs" /\ run.pc \in {"for", "return"}
        /\ run.executed >= 1)
    => (run.stop <=> Trailing(run.loss_list_val) > run.p)

\* The product of matrices, written entry by entry.
MatMul(A, B) ==
    LET m == Len(B)
        RECURSIVE S(_, _, _)
        S(i, j, l) == IF l > m THEN 0 ELSE A[i][l] * B[l][j] + S(i, j, l + 1)
    IN [i \in 1..Len(A) |-> [j \in 1..Len(B[1]) |-> S(i, j, 1)]]

Identity(n) == [i \in 1..n |-> [j \in 1..n |-> IF i = j THEN 1 ELSE 0]]

RECURSIVE MatPow(_, _)
MatPow(P, k) == IF k = 0 THEN Identity(Len(P)) ELSE MatMul(P, MatPow(P, k - 1))

\* C2: for n_iters >= 1, unroll returns n_iters snapshots of the shape of X,
\* snapshot 0 is X, snapshot i is P^i X, and X and P are unchanged.
C2_UnrollSnapshots ==
    (un.pc = "returned" /\ un.n_iters >= 1) =>
        /\ ~un.ret.err
        /\ Len(un.ret.outs) = un.n_iters
        /\ \A k \in 1..un.n_iters :
              /\ Len(un.ret.outs[k]) = Len(un.X0)
              /\ \A i \in 1..Len(un.X0) :
                    Len(un.ret.outs[k][i]) = Len(un.X0[1])
        /\ un.ret.outs[1] = un.X0
        /\ \A i \in 0..(un.n_iters - 1) :
              un.ret.outs[i + 1] = MatMul(MatPow(un.P0, i), un.X0)
        /\ un.X = un.X0
        /\ un.P = un.P0

C2_Witness ==
    /\ un.pc = "returned"
    /\ un.n_iters = 3
    /\ Len(un.X0) = 2
    /\ un.ret.outs[2] # un.ret.outs[1]
    /\ un.ret.outs[3] # un.ret.outs[2]
    /\ un.ret.outs[3] # un.ret.outs[1]

\* The number of statements left before the caller's test has returned,
\* counting every remaining epoch in full.
Rank(r) ==
    LET K == Len(Body) + 1
        left == (r.n_epochs - r.it) * K
    IN CASE r.pc = "for"          -> left + 6
         [] r.pc = "return"       -> 5
         [] r.pc = "test_eval"    -> 4
         [] r.pc = "test_forward" -> 3
         [] r.pc = "test_loss"    -> 2
         [] r.pc = "test_acc"     -> 1
         [] r.pc = "done"         -> 0
         [] OTHER -> left + 6 + (Len(Body) - IndexOf(r.pc) + 1)

\* C3: train terminates.  It never executes more than n_epochs epochs; every
\* step lowers a natural-number rank, and a step is possible until the end;
\* once the early-stopping test has returned True no further epoch, forward
\* pass of the loop, backward pass or optimizer step is executed.
C3_Terminates ==
    /\ [](run.executed <= run.n_epochs /\ Rank(run) >= 0)
    /\ [](run.pc # "done" => ENABLED Next)
    /\ [][Rank(run') < Rank(run)]_vars
    /\ [][run.stop => /\ run'.pc \in {"return"} \cup TestPcs
                      /\ run'.executed = run.executed
                      /\ run'.params = run.params
                      /\ run'.loss_list_train = run.loss_list_train]_vars

C3_Witness ==
    /\ Returned(run)
    /\ run.stop
    /\ run.executed = 2
    /\ run.n_epochs = 3

\* Every loss of the list has been passed to earlystopping.test.
AllTested(r) == r.pc \notin {"append_acc", "es_test"}

\* C4 (as claimed): after every call of earlystopping.test the best held by
\* the object is the minimum of the validation losses passed so far (which
\* never increases as losses are added).
C4_BestIsMin ==
    (AllTested(run) /\ Len(run.loss_list_val) >= 1)
    => run.es.best = SeqMin(run.loss_list_val)

\* C5: two runs of train with the same patience and the same validation
\* losses stop at the same epoch, whatever their training losses and
\* validation accuracies are.
C5_SameStop ==
    /\ pair[1].stop = pair[2].stop
    /\ pair[1].executed = pair[2].executed
    /\ pair[1].pc = pair[2].pc
    /\ pair[1].loss_list_val = pair[2].loss_list_val

C5_Witness ==
    /\ pair[1].stop /\ pair[2].stop
    /\ pair[1].pc = "return"
    /\ pair[1].executed = 2
    /\ pair[1].loss_list_train # pair[2].loss_list_train
    /\ pair[1].acc_list_val # pair[2].acc_list_val

\* C6: earlystopping.test returns True only on a non-improving call and only
\* when, counting it, more than patience calls were non-improving; so train
\* executes at least min(n_epochs, patience + 1) epochs.
C6_StopNeedsMoreThanPatience ==
    /\ (run.pc = "if_stop" /\ run.stop) =>
          LET l == run.loss_list_val IN
          /\ NonImp(l, Len(l))
          /\ NonImpCount(l, Len(l)) > run.p
    /\ (run.pc \in {"return"} \cup TestPcs) =>
          run.executed >= Min(run.n_epochs, run.p + 1)

C6_Witness ==
    /\ run.pc = "if_stop"
    /\ run.stop
    /\ run.p = 1
    /\ run.executed = 2
    /\ run.n_epochs = 3

\* The order of an epoch as claimed; the statement that stores the training
\* loss is left out of it.
ClaimedOrder ==
    <<"zero_grad", "model_train", "forward_train", "loss_train", "backward",
      "step", "model_eval", "forward_val", "loss_val", "acc_val",
      "append_val", "append_acc", "es_test">>

Claimed(s) == s # "append_train"

\* C7: every epoch runs zero_grad, train mode, forward, training loss,
\* backward, optimizer step, eval mode, forward, validation loss and
\* accuracy, and then the early-stopping test; each recorded validation loss
\* is measured with the parameters after that epoch's update, and there is
\* one optimizer step per executed epoch.
C7_EpochOrder ==
    LET seen == SelectSeq(run.log, Claimed) IN
    /\ (run.pc \in {Body[k] : k \in 1..Len(Body)}) =>
          seen = Prefix(ClaimedOrder, Len(seen))
    /\ run.pc = "if_stop" => seen = ClaimedOrder
    /\ (run.pc \in {"backward", "append_train", "step"}) =>
          /\ run.loss_train.idx = "train"
          /\ run.loss_train.from =
                [params |-> run.executed - 1, training |-> TRUE, valid |-> TRUE]
    /\ Len(run.val_from) = Len(run.loss_list_val)
    /\ \A i \in 1..Len(run.val_from) :
          run.val_from[i] = [params |-> i, training |-> FALSE, valid |-> TRUE]
    /\ (run.pc \in {"for", "return"} \cup TestPcs) => run.params = run.executed

C7_Witness ==
    /\ run.pc = "if_stop"
    /\ run.executed = 2
    /\ run.params = 2
    /\ Len(run.val_from) = 2

\* C8: between epochs and at return the three lists have the same length,
\* the number of epochs executed; the epoch in which early stopping triggers
\* is in all three; with n_epochs = 0 all three are empty.
C8_ListLengths ==
    /\ (run.pc \in {"for", "if_stop", "return"} \cup TestPcs) =>
          /\ Len(run.loss_list_train) = run.executed
          /\ Len(run.loss_list_val) = run.executed
          /\ Len(run.acc_list_val) = run.executed
    /\ (run.pc = "return" /\ run.stop) =>
          /\ Len(run.loss_list_train) = run.epoch + 1
          /\ Len(run.loss_list_val) = run.epoch + 1
          /\ Len(run.acc_list_val) = run.epoch + 1
    /\ (Returned(run) /\ run.n_epochs = 0) =>
          /\ run.loss_list_train = <<>>
          /\ run.loss_list_val = <<>>
          /\ run.acc_list_val = <<>>

C8_Witness ==
    /\ run.pc = "return"
    /\ run.stop
    /\ run.epoch = 1
    /\ run.n_epochs = 3
    /\ Len(run.acc_list_val) = 2

\* C9: the parameters change only in the optimizer step of train, taken in
\* training mode; validation and test values are computed in evaluation
\* mode; test leaves the parameters unchanged; after at least one epoch
\* train returns with the model in evaluation mode.
C9_ParamsAndModes ==
    /\ [][run'.params # run.params => (run.pc = "step" /\ run.training)]_vars
    /\ [][run.pc \in TestPcs => run'.params = run.params]_vars
    /\ [](/\ run.loss_val.idx = "val" =>
                (run.loss_val.from.valid /\ ~run.loss_val.from.training)
          /\ run.acc_val.idx = "val" =>
                (run.acc_val.from.valid /\ ~run.acc_val.from.training)
          /\ run.loss_test.idx = "test" =>
                (run.loss_test.from.valid /\ ~run.loss_test.from.training)
          /\ run.acc_test.idx = "test" =>
                (run.acc_test.from.valid /\ ~run.acc_test.from.training)
          /\ (run.pc \in {"return", "test_eval"} /\ run.executed >= 1) =>
                ~run.training)

C9_Witness ==
    /\ run.pc = "done"
    /\ run.executed = 2
    /\ run.params = 2
    /\ run.acc_test.idx = "test"
    /\ run.acc_test.from.params = 2

\* C10: in the module-level run the number of epochs is the --n_iter
\* argument, which also is the number of snapshots, so no more than n_iters
\* epochs (9 by default) are executed; with the defaults early stopping
\* triggers only after at least 6 non-improving epochs.
C10_EpochsFromNIter ==
    LET given == main.argv.n_iter
        started == main.pc \in {"epochs", "test", "done"}
    IN
    /\ (main.pc \notin {"parse", "hyper"}) =>
          /\ main.n_iters = (IF given = Absent THEN 9 ELSE given)
          /\ main.n_epochs = main.n_iters
    /\ (main.pc \in {"train", "epochs", "test", "done"}) =>
          Len(main.X) = main.n_iters
    /\ started =>
          /\ run.n_epochs = main.n_iters
          /\ run.executed <= main.n_iters
    /\ (started /\ given = Absent /\ main.argv.ps = Absent) =>
          /\ run.p = 5
          /\ run.executed <= 9
          /\ run.stop =>
                NonImpCount(run.loss_list_val, Len(run.loss_list_val)) >= 6

C10_Witness ==
    /\ main.pc = "done"
    /\ main.argv.n_iter = Absent
    /\ main.argv.ps = Absent
    /\ run.stop
    /\ run.executed = 8

====
